---- MODULE Spec2Model ----
(***************************************************************************)
(* Model of the polling monitor (AccountMonitor), the copy-trade decision  *)
(* engine (CopyTradingMonitor) and the order executor (TradeExecutor).     *)
(*                                                                         *)
(* One action is one turn of the JavaScript event loop: an external event  *)
(* (an API call by the user, a timer firing, a network reply) followed by  *)
(* all code that runs until every async function is again suspended on     *)
(* network I/O.                                                            *)
(*                                                                         *)
(* Units: quantity in shares, price and value in cents, the multiplier in  *)
(* percent, so quantity * multiplier * price is in 1/10000 dollar; the     *)
(* configured sizes (minTradeSize, ...) are in dollars.                    *)
(***************************************************************************)
EXTENDS Integers, Sequences, FiniteSets, TLC

VARIABLES
  config,             \* TradeExecutor.config / CopyTradingMonitor.config, and
                      \* whether the caller's MonitorOptions.onUpdate throws
  isMonitoring,       \* AccountMonitor.isMonitoring
  pollIntervalId,     \* AccountMonitor.pollIntervalId, 0 = undefined
  timers,             \* interval timers armed in the event loop
  lastStatus,         \* AccountMonitor.lastStatus, <<>> = undefined
  starting,           \* start() calls suspended on their initial updateStatus()
  polling,            \* timer-driven updateStatus() calls suspended on the fetch
  polls,              \* updateStatus() invocations begun so far
  apiKeyCreated,      \* TradeExecutor.apiKeyCreated
  initializing,       \* CopyTradingMonitor.start() calls suspended on initialize()
  executedPositions,  \* CopyTradingMonitor.executedPositions
  targetPositions,    \* CopyTradingMonitor.targetPositions (insertion order)
  stats,              \* CopyTradingMonitor.stats
  handlers,           \* handleStatusUpdate() calls suspended on the executor
  call,               \* direct executor calls suspended on the gateway
  log,                \* events of the last turn of the event loop
  results,            \* TradeExecutionResults returned in the last turn
  lastFetched         \* status getStatus() returned in the last turn, <<>> = none

vars == <<config, isMonitoring, pollIntervalId, timers, lastStatus, starting,
          polling, polls, apiKeyCreated, initializing, executedPositions,
          targetPositions, stats, handlers, call, log, results,
          lastFetched>>

-----------------------------------------------------------------------------
(* Bounds *)

MaxPolls == 2        \* updateStatus() invocations in one behaviour
MaxInFlight == 2     \* fetches in flight at once
MaxHandlers == 2     \* handleStatusUpdate() calls in flight at once
MaxInits == 1        \* CopyTradingMonitor.start() calls awaiting initialize()
MaxCalls == 1        \* direct executor calls in flight at once

-----------------------------------------------------------------------------
(* Program constants *)

DefaultMinTradeSize == 1        \* dollars
ExampleMaxTradeSize == 5000     \* dollars
ExampleMaxPositionSize == 10000 \* dollars
DefaultMultiplier == 100        \* percent, 1.0
Dollar == 10000                 \* 1 dollar in units of quantity*percent*cents

-----------------------------------------------------------------------------
(* Values *)

Abs(x) == IF x < 0 THEN -x ELSE x
Max(a, b) == IF a > b THEN a ELSE b

RECURSIVE SumValues(_)
SumValues(ps) == IF ps = <<>> THEN 0 ELSE Head(ps).value + SumValues(Tail(ps))

Ids(ps) == {ps[i].id : i \in 1..Len(ps)}

Pos(id, q, pr, v) == [id |-> id, quantity |-> q, price |-> pr, value |-> v]

\* Positions the data source reports in the monitor specification
P1a == Pos("T1", 100, 50, 5000)
P1b == Pos("T1", 200, 50, 10000)
P2 == Pos("T2", 40, 25, 1000)
P3 == Pos("T2", 1, 25, 25)
PositionSet == {P1a, P1b, P2, P3}

PositionLists ==
  {<<>>, <<P1a>>, <<P1b>>, <<P3>>, <<P1a, P2>>}

Ev(e, id, res) == [ev |-> e, id |-> id, res |-> res]

HasEv(lg, e) == \E i \in 1..Len(lg) : lg[i].ev = e

-----------------------------------------------------------------------------
(* PolymarketClient.getUserPositions / AccountMonitor.getStatus *)

CalculateTotalValue(ps) == SumValues(ps)

UserPositions(ps) == [positions |-> ps, totalValue |-> CalculateTotalValue(ps)]

\* getStatus: a rejected fetch is replaced by an empty position list
GetStatus(fetched, ok) ==
  LET positions == IF ok THEN fetched ELSE [positions |-> <<>>, totalValue |-> 0]
  IN [openPositions |-> positions.positions, totalValue |-> positions.totalValue]

-----------------------------------------------------------------------------
(* AccountMonitor.detectChanges *)

QuantityChangedMutantInclusive(currentQty, lastQty) ==
  100 * Abs(currentQty - lastQty) >= Max(100, lastQty)

QuantityChanged(currentQty, lastQty) ==
  100 * Abs(currentQty - lastQty) > Max(100, lastQty)

ValueChangedMutantInclusive(currentValue, lastValue) ==
  100 * Abs(currentValue - lastValue) >= Max(lastValue, 1)

ValueChanged(currentValue, lastValue) ==
  100 * Abs(currentValue - lastValue) > Max(lastValue, 1)

Find(ps, id) == ps[CHOOSE i \in 1..Len(ps) : ps[i].id = id]

DetectChanges(last, status) ==
  IF last = <<>> THEN TRUE
  ELSE LET cur == status.openPositions
           old == last[1].openPositions
       IN IF Len(cur) # Len(old) THEN TRUE
          ELSE \/ \E i \in 1..Len(cur) :
                    \/ cur[i].id \notin Ids(old)
                    \/ /\ cur[i].id \in Ids(old)
                       /\ QuantityChanged(cur[i].quantity, Find(old, cur[i].id).quantity)
               \/ \E i \in 1..Len(old) : old[i].id \notin Ids(cur)
               \/ ValueChanged(status.totalValue, last[1].totalValue)

\* updateStatus, "Log what changed for debugging": the three lists, as events
Listed(as, ps) == [i \in 1..Len(ps) |-> [ev |-> as, id |-> ps[i].id, res |-> ""]]

ChangeListsMutantShortCircuit(last, status) ==
  LET cur == status.openPositions
      old == last[1].openPositions
      newPositions == SelectSeq(cur, LAMBDA p : p.id \notin Ids(old))
      removedPositions ==
        IF newPositions # <<>> THEN <<>>
        ELSE SelectSeq(old, LAMBDA lp : lp.id \notin Ids(cur))
      updatedPositions ==
        IF newPositions # <<>> THEN <<>>
        ELSE SelectSeq(cur, LAMBDA p : /\ p.id \in Ids(old)
                                       /\ QuantityChanged(p.quantity,
                                                          Find(old, p.id).quantity))
  IN Listed("newPositions", newPositions)
       \o Listed("updatedPositions", updatedPositions)
       \o Listed("removedPositions", removedPositions)

ChangeLists(last, status) ==
  LET cur == status.openPositions
      old == last[1].openPositions
      newPositions == SelectSeq(cur, LAMBDA p : p.id \notin Ids(old))
      removedPositions == SelectSeq(old, LAMBDA lp : lp.id \notin Ids(cur))
      updatedPositions ==
        SelectSeq(cur, LAMBDA p : /\ p.id \in Ids(old)
                                  /\ QuantityChanged(p.quantity,
                                                     Find(old, p.id).quantity))
  IN Listed("newPositions", newPositions)
       \o Listed("updatedPositions", updatedPositions)
       \o Listed("removedPositions", removedPositions)

-----------------------------------------------------------------------------
(* TradeExecutor *)

TradeQuantityMutantUnscaled(cfg, p) == p.quantity * DefaultMultiplier

TradeQuantity(cfg, p) == p.quantity * cfg.positionSizeMultiplier
TradeValue(cfg, p) == TradeQuantity(cfg, p) * p.price
PositionValue(cfg, p) == p.value * cfg.positionSizeMultiplier

\* executeBuy, "Validate trade size": the first violated guard, or "ok"
BuyGuardMutantMaxFirst(cfg, p) ==
  IF TradeValue(cfg, p) > cfg.maxTradeSize * Dollar THEN "max"
  ELSE IF TradeValue(cfg, p) < cfg.minTradeSize * Dollar THEN "min"
  ELSE IF PositionValue(cfg, p) > cfg.maxPositionSize * Dollar THEN "pos"
  ELSE "ok"

BuyGuard(cfg, p) ==
  IF TradeValue(cfg, p) < cfg.minTradeSize * Dollar THEN "min"
  ELSE IF TradeValue(cfg, p) > cfg.maxTradeSize * Dollar THEN "max"
  ELSE IF PositionValue(cfg, p) > cfg.maxPositionSize * Dollar THEN "pos"
  ELSE "ok"

\* initialize(): does it go to the gateway (createOrDeriveApiKey)?
InitializeCallsGatewayMutant(cfg) == TRUE

InitializeCallsGateway(cfg) == ~cfg.dryRun

\* executeBuy up to its first suspension: a rejection ("missingId", "min",
\* "max", "pos"), the dry-run result ("dry"), or the gateway call it awaits
\* ("init" = createOrDeriveApiKey, "order" = createAndPostOrder)
ExecuteBuy(cfg, akc, p) ==
  IF p.id = "" THEN "missingId"
  ELSE IF BuyGuard(cfg, p) # "ok" THEN BuyGuard(cfg, p)
  ELSE IF cfg.dryRun THEN "dry"
  ELSE IF ~akc /\ InitializeCallsGateway(cfg) THEN "init"
  ELSE "order"

ExecuteSell(cfg, akc, p) ==
  IF p.id = "" THEN "missingId"
  ELSE IF cfg.dryRun THEN "dry"
  ELSE IF ~akc /\ InitializeCallsGateway(cfg) THEN "init"
  ELSE "order"

Execute(side, cfg, akc, p) ==
  IF side = "BUY" THEN ExecuteBuy(cfg, akc, p) ELSE ExecuteSell(cfg, akc, p)

\* TradeExecutionResult; orderId 0 = undefined, executedQuantity in 1/100
\* share, executedPrice in cents, error "" = undefined
Result(cfg, side, p, outcome, oid) ==
  [side |-> side, position |-> p, dryRun |-> cfg.dryRun,
   success |-> outcome \in {"dry", "ok"},
   orderId |-> IF outcome = "ok" THEN oid ELSE 0,
   executedQuantity |-> IF outcome \in {"dry", "ok"} THEN TradeQuantity(cfg, p) ELSE 0,
   executedPrice |-> IF outcome \in {"dry", "ok"} THEN p.price ELSE 0,
   error |-> IF outcome \in {"dry", "ok"} THEN "" ELSE outcome]

\* the observer callback the executor invokes with a result
ResultCallbackMutantOnlySuccess(r) == IF r.success THEN "onTradeExecuted" ELSE "none"

ResultCallback(r) == IF r.success THEN "onTradeExecuted" ELSE "onTradeError"

-----------------------------------------------------------------------------
(* CopyTradingMonitor.handleStatusUpdate *)

\* Map.set: a repeated key keeps its place and takes the later value
MapSet(m, p) ==
  IF p.id \in Ids(m)
  THEN [i \in 1..Len(m) |-> IF m[i].id = p.id THEN p ELSE m[i]]
  ELSE Append(m, p)

RECURSIVE ToMap(_, _)
ToMap(m, ps) == IF ps = <<>> THEN m ELSE ToMap(MapSet(m, Head(ps)), Tail(ps))

NewPositionsMutantInverted(currentPositions, target) ==
  SelectSeq(currentPositions, LAMBDA p : p.id \in Ids(target))

NewPositions(currentPositions, target) ==
  SelectSeq(currentPositions, LAMBDA p : p.id \notin Ids(target))

ClosedPositions(currentPositions, target) ==
  SelectSeq(target, LAMBDA p : p.id \notin Ids(currentPositions))

AddVolumeMutantReplace(totalVolume, r) ==
  (r.executedQuantity * r.executedPrice + 50) \div 100

\* toFixed(2) of the running volume, in cents
AddVolume(totalVolume, r) ==
  (totalVolume * 100 + r.executedQuantity * r.executedPrice + 50) \div 100

\* the caller's handling of a result: idempotency set and stats
\* (lastTradeTime: TRUE = stamped, FALSE = undefined)
Counted(st, r) ==
  [st EXCEPT !.totalTradesExecuted = @ + 1, !.totalVolume = AddVolume(@, r),
             !.lastTradeTime = TRUE]

RecordResultMutantDryRunUncounted(st, r) ==
  IF r.success
  THEN [st EXCEPT
          !.ex = IF r.side = "BUY" THEN @ \cup {r.position.id} ELSE @ \ {r.position.id},
          !.stats = IF r.dryRun THEN @ ELSE Counted(@, r)]
  ELSE [st EXCEPT !.stats = [@ EXCEPT !.totalTradesFailed = @ + 1]]

RecordResultMutantFailureTracked(st, r) ==
  [st EXCEPT
     !.ex = IF r.side = "BUY" THEN @ \cup {r.position.id} ELSE @ \ {r.position.id},
     !.stats = IF r.success THEN Counted(@, r)
               ELSE [@ EXCEPT !.totalTradesFailed = @ + 1]]

RecordResultMutantWrongCounter(st, r) ==
  IF r.success
  THEN [st EXCEPT
          !.ex = IF r.side = "BUY" THEN @ \cup {r.position.id} ELSE @ \ {r.position.id},
          !.stats = Counted(@, r)]
  ELSE [st EXCEPT !.stats = [@ EXCEPT !.totalTradesExecuted = @ + 1]]

RecordResultMutantSellKeeps(st, r) ==
  IF r.success
  THEN [st EXCEPT
          !.ex = IF r.side = "BUY" THEN @ \cup {r.position.id} ELSE @,
          !.stats = Counted(@, r)]
  ELSE [st EXCEPT !.stats = [@ EXCEPT !.totalTradesFailed = @ + 1]]

RecordResult(st, r) ==
  IF r.success
  THEN [st EXCEPT
          !.ex = IF r.side = "BUY" THEN @ \cup {r.position.id} ELSE @ \ {r.position.id},
          !.stats = Counted(@, r)]
  ELSE [st EXCEPT !.stats = [@ EXCEPT !.totalTradesFailed = @ + 1]]

\* the executor returns r to the handler: callback, then the caller's handling
Settle(st, r) ==
  RecordResult([st EXCEPT !.lg = Append(@, Ev(ResultCallback(r), r.position.id, r.side)),
                          !.rs = Append(@, r)], r)

\* has the decision engine an intent for the head of the list?
SkipBuyMutantNever(ex, p) == FALSE

SkipBuyMutantAlways(ex, p) == TRUE

SkipBuy(ex, p) == p.id \in ex

SkipSellMutantAlways(ex, p) == TRUE

SkipSellMutantNever(ex, p) == FALSE

SkipSell(ex, p) == p.id \notin ex

\* the order handed to createAndPostOrder; size in 1/100 share, price in cents
Order(cfg, side, p) ==
  [tokenID |-> p.id, price |-> p.price, size |-> TradeQuantity(cfg, p), side |-> side]

NoOrder == [tokenID |-> "", price |-> 0, size |-> 0, side |-> ""]

GatewayEv(side, p, o) ==
  IF o = "init" THEN Ev("createOrDeriveApiKey", p.id, side)
  ELSE Ev("createAndPostOrder", p.id, side)

BuysFirstMutantSellsFirst(h) == h.newPositions # <<>> /\ h.closedPositions = <<>>

\* the loop over the new positions precedes the loop over the closed ones
BuysFirst(h) == h.newPositions # <<>>

\* run the handler until it is suspended on the gateway or has returned;
\* st.h.newPositions / closedPositions are the positions still to process
RECURSIVE RunHandler(_)
RunHandler(st) ==
  LET h == st.h IN
  IF BuysFirst(h) THEN
    LET p == Head(h.newPositions)
        next == [st EXCEPT !.h.newPositions = Tail(@)]
        o == ExecuteBuy(config, st.akc, p)
    IN IF SkipBuy(st.ex, p) THEN RunHandler(next)
       ELSE IF o \in {"init", "order"}
       THEN [st EXCEPT !.h.side = "BUY", !.h.wait = o, !.state = "suspended",
                       !.lg = @ \o <<Ev("BUY", p.id, o), GatewayEv("BUY", p, o)>>]
       ELSE RunHandler(Settle([next EXCEPT !.lg = Append(@, Ev("BUY", p.id, o))],
                              Result(config, "BUY", p, o, 0)))
  ELSE IF h.closedPositions # <<>> THEN
    LET p == Head(h.closedPositions)
        next == [st EXCEPT !.h.closedPositions = Tail(@)]
        o == ExecuteSell(config, st.akc, p)
    IN IF SkipSell(st.ex, p) THEN RunHandler(next)
       ELSE IF o \in {"init", "order"}
       THEN [st EXCEPT !.h.side = "SELL", !.h.wait = o, !.state = "suspended",
                       !.lg = @ \o <<Ev("SELL", p.id, o), GatewayEv("SELL", p, o)>>]
       ELSE RunHandler(Settle([next EXCEPT !.lg = Append(@, Ev("SELL", p.id, o))],
                              Result(config, "SELL", p, o, 0)))
  ELSE [st EXCEPT !.tp = h.currentPositions, !.state = "returned"]

\* the state a handler works on
Ctx(h, lg) ==
  [h |-> h, ex |-> executedPositions, stats |-> stats, tp |-> targetPositions,
   akc |-> apiKeyCreated, lg |-> lg, rs |-> <<>>, state |-> "running"]

\* the handler's classification of the snapshot, for the record
Classified(as, ps) == [i \in 1..Len(ps) |-> Ev(as, ps[i].id, "")]

HandleStatusUpdate(status, lg) ==
  LET currentPositions == ToMap(<<>>, status.openPositions)
      h == [currentPositions |-> currentPositions,
            newPositions |-> NewPositions(currentPositions, targetPositions),
            closedPositions |-> ClosedPositions(currentPositions, targetPositions),
            side |-> "", wait |-> ""]
  IN RunHandler(Ctx(h, lg \o Classified("added", h.newPositions)
                          \o Classified("closed", h.closedPositions)))

\* the position a suspended handler is executing
Current(h) == IF h.side = "BUY" THEN Head(h.newPositions) ELSE Head(h.closedPositions)

\* the handler with the position in execution taken off its list
Advance(h) ==
  IF h.side = "BUY" THEN [h EXCEPT !.newPositions = Tail(@), !.side = "", !.wait = ""]
  ELSE [h EXCEPT !.closedPositions = Tail(@), !.side = "", !.wait = ""]

-----------------------------------------------------------------------------
(* AccountMonitor.updateStatus, after getStatus() has returned *)

CopyTradingEnabledMutantAlways(cfg) == TRUE

\* this.config.enabled, as tested by the onUpdate wrapper and by start()
CopyTradingEnabled(cfg) == cfg.enabled

ShouldNotifyMutantAlways(hasChanges, last) == TRUE

\* updateStatus: if (hasChanges || !this.lastStatus)
ShouldNotify(hasChanges, last) == hasChanges \/ last = <<>>

\* throws: the caller's onUpdate callback throws
UpdateStatus(status, throws, lg0) ==
  LET hasChanges == DetectChanges(lastStatus, status)
      lg == IF lastStatus # <<>> /\ hasChanges
            THEN lg0 \o ChangeLists(lastStatus, status) ELSE lg0
      idle == [Ctx([side |-> ""], lg) EXCEPT !.state = "none"]
  IN IF ShouldNotify(hasChanges, lastStatus)
     THEN [ls |-> <<status>>,
           c |-> IF throws
                 THEN [idle EXCEPT !.lg = @ \o <<Ev("onUpdate", "", "throws"),
                                               Ev("onError", "", "")>>]
                 ELSE IF CopyTradingEnabled(config)
                 THEN HandleStatusUpdate(status, Append(lg, Ev("onUpdate", "", "")))
                 ELSE [idle EXCEPT !.lg = Append(@, Ev("onUpdate", "", ""))]]
     ELSE [ls |-> lastStatus, c |-> idle]

-----------------------------------------------------------------------------
(* Initial state: the objects as constructed *)

Cfg(e, d, mn, mx, mp, mult) ==
  [enabled |-> e, dryRun |-> d, minTradeSize |-> mn, maxTradeSize |-> mx,
   maxPositionSize |-> mp, positionSizeMultiplier |-> mult,
   onUpdateThrows |-> FALSE]

\* the caller's onUpdate callback either returns or throws
Configs ==
  {[Cfg(e, d, DefaultMinTradeSize, ExampleMaxTradeSize, ExampleMaxPositionSize,
        DefaultMultiplier) EXCEPT !.onUpdateThrows = t] :
     e \in BOOLEAN, d \in BOOLEAN, t \in BOOLEAN}

InitStats ==
  [totalTradesExecuted |-> 0, totalTradesFailed |-> 0, totalVolume |-> 0,
   lastTradeTime |-> FALSE]

InitWith(cfgs) ==
  /\ config \in cfgs
  /\ isMonitoring = FALSE
  /\ pollIntervalId = 0
  /\ timers = {}
  /\ lastStatus = <<>>
  /\ starting = 0
  /\ polling = 0
  /\ polls = 0
  /\ apiKeyCreated = FALSE
  /\ initializing = 0
  /\ executedPositions = {}
  /\ targetPositions = <<>>
  /\ stats = InitStats
  /\ handlers = <<>>
  /\ call = <<>>
  /\ log = <<>>
  /\ results = <<>>
  /\ lastFetched = <<>>

Init == InitWith(Configs)

-----------------------------------------------------------------------------
(* AccountMonitor.start / stop *)

\* start(): the "already running" check
AlreadyRunningMutantNever == FALSE

AlreadyRunning == isMonitoring

\* start() up to its suspension on the initial updateStatus()
AccountMonitorStart(lg) ==
  IF AlreadyRunning
  THEN /\ log' = Append(lg, Ev("start", "", "warn"))
       /\ UNCHANGED <<isMonitoring, starting, polls>>
  ELSE /\ polls < MaxPolls
       /\ starting + polling < MaxInFlight
       /\ isMonitoring' = TRUE
       /\ starting' = starting + 1
       /\ polls' = polls + 1
       /\ log' = Append(lg, Ev("start", "", "fetch"))

\* getAccountMonitor().start()
MonitorStart ==
  /\ AccountMonitorStart(<<>>)
  /\ results' = <<>>
  /\ lastFetched' = <<>>
  /\ UNCHANGED <<config, pollIntervalId, timers, lastStatus, polling, apiKeyCreated,
                 initializing, executedPositions, targetPositions, stats,
                 handlers, call>>

\* AccountMonitor.stop(), CopyTradingMonitor.stop()
Stop ==
  /\ IF isMonitoring
     THEN /\ isMonitoring' = FALSE
          /\ timers' = timers \ {pollIntervalId}
          /\ pollIntervalId' = 0
     ELSE UNCHANGED <<isMonitoring, timers, pollIntervalId>>
  /\ log' = <<Ev("stop", "", "")>>
  /\ results' = <<>>
  /\ lastFetched' = <<>>
  /\ UNCHANGED <<config, lastStatus, starting, polling, polls, apiKeyCreated,
                 initializing, executedPositions, targetPositions, stats,
                 handlers, call>>

\* setInterval: the identifier of the new timer
NewTimer == CHOOSE t \in 1..(Cardinality(timers) + 1) : t \notin timers

\* the interval fires: updateStatus() begins and suspends on the fetch
TimerTick ==
  /\ timers # {}
  /\ polls < MaxPolls
  /\ starting + polling < MaxInFlight
  /\ polling' = polling + 1
  /\ polls' = polls + 1
  /\ log' = <<Ev("tick", "", "")>>
  /\ results' = <<>>
  /\ lastFetched' = <<>>
  /\ UNCHANGED <<config, isMonitoring, pollIntervalId, timers, lastStatus, starting,
                 apiKeyCreated, initializing, executedPositions, targetPositions,
                 stats, handlers, call>>

-----------------------------------------------------------------------------
(* CopyTradingMonitor.start *)

Start ==
  /\ IF CopyTradingEnabled(config) /\ InitializeCallsGateway(config)
     THEN /\ initializing < MaxInits
          /\ initializing' = initializing + 1
          /\ log' = <<Ev("createOrDeriveApiKey", "", "start")>>
          /\ UNCHANGED <<isMonitoring, starting, polls>>
     ELSE /\ AccountMonitorStart(<<>>)
          /\ UNCHANGED initializing
  /\ results' = <<>>
  /\ lastFetched' = <<>>
  /\ UNCHANGED <<config, pollIntervalId, timers, lastStatus, polling, apiKeyCreated,
                 executedPositions, targetPositions, stats, handlers, call>>

\* createOrDeriveApiKey resolves for a start(): accountMonitor.start() follows
StartInitOk ==
  /\ initializing > 0
  /\ initializing' = initializing - 1
  /\ apiKeyCreated' = TRUE
  /\ AccountMonitorStart(<<Ev("reply", "", "initialized")>>)
  /\ results' = <<>>
  /\ lastFetched' = <<>>
  /\ UNCHANGED <<config, pollIntervalId, timers, lastStatus, polling,
                 executedPositions, targetPositions, stats, handlers, call>>

\* createOrDeriveApiKey rejects for a start(): rethrown unless dry-run
StartInitFailMutantSwallowed ==
  /\ initializing > 0
  /\ initializing' = initializing - 1
  /\ AccountMonitorStart(<<Ev("start", "", "rejected")>>)
  /\ results' = <<>>
  /\ lastFetched' = <<>>
  /\ UNCHANGED <<config, pollIntervalId, timers, lastStatus, polling, apiKeyCreated,
                 executedPositions, targetPositions, stats, handlers, call>>

StartInitFail ==
  /\ initializing > 0
  /\ initializing' = initializing - 1
  /\ IF ~config.dryRun
     THEN /\ log' = <<Ev("start", "", "rejected")>>
          /\ UNCHANGED <<isMonitoring, starting, polls>>
     ELSE AccountMonitorStart(<<>>)
  /\ results' = <<>>
  /\ lastFetched' = <<>>
  /\ UNCHANGED <<config, pollIntervalId, timers, lastStatus, polling, apiKeyCreated,
                 executedPositions, targetPositions, stats, handlers, call>>

-----------------------------------------------------------------------------
(* A fetch completes: the rest of getStatus() and updateStatus() runs, with   *)
(* the copy-trade handler it starts; an initial fetch also resumes start()    *)

FetchDone(initial, ok, ps, throws) ==
  LET status == GetStatus(UserPositions(ps), ok)
      u == UpdateStatus(status, throws,
                        <<Ev("fetch", "", IF ok THEN "fulfilled" ELSE "rejected")>>)
      c == u.c
  IN /\ IF initial
        THEN /\ starting > 0
             /\ starting' = starting - 1
             /\ pollIntervalId' = NewTimer
             /\ timers' = timers \cup {NewTimer}
             /\ log' = Append(c.lg, Ev("setInterval", "", ""))
             /\ UNCHANGED polling
        ELSE /\ polling > 0
             /\ polling' = polling - 1
             /\ log' = c.lg
             /\ UNCHANGED <<starting, pollIntervalId, timers>>
     /\ lastStatus' = u.ls
     /\ executedPositions' = c.ex
     /\ stats' = c.stats
     /\ targetPositions' = c.tp
     /\ results' = c.rs
     /\ lastFetched' = <<status>>
     /\ IF c.state = "suspended"
        THEN /\ Len(handlers) < MaxHandlers
             /\ handlers' = Append(handlers, c.h)
        ELSE UNCHANGED handlers
     /\ UNCHANGED <<config, isMonitoring, polls, apiKeyCreated, initializing, call>>

FetchOk == \E initial \in BOOLEAN, ps \in PositionLists :
             FetchDone(initial, TRUE, ps, config.onUpdateThrows)

FetchFail == \E initial \in BOOLEAN :
               FetchDone(initial, FALSE, <<>>, config.onUpdateThrows)

-----------------------------------------------------------------------------
(* The gateway answers a suspended handler *)

Without(k) == SubSeq(handlers, 1, k - 1) \o SubSeq(handlers, k + 1, Len(handlers))

\* the handler k goes on from context c
Resume(k, c) ==
  /\ executedPositions' = c.ex
  /\ stats' = c.stats
  /\ targetPositions' = c.tp
  /\ log' = c.lg
  /\ results' = c.rs
  /\ lastFetched' = <<>>
  /\ handlers' = IF c.state = "suspended" THEN [handlers EXCEPT ![k] = c.h]
                 ELSE Without(k)
  /\ UNCHANGED <<config, isMonitoring, pollIntervalId, timers, lastStatus, starting,
                 polling, polls, initializing, call>>

\* the gateway's order identifiers
OrderIds == {1}

\* lazy initialize() inside executeBuy/executeSell succeeds: the order is posted
HandlerInitOk(k) ==
  /\ handlers[k].wait = "init"
  /\ apiKeyCreated' = TRUE
  /\ Resume(k, [Ctx([handlers[k] EXCEPT !.wait = "order"],
                    <<Ev("reply", Current(handlers[k]).id, "initialized"),
                      GatewayEv(handlers[k].side, Current(handlers[k]), "order")>>)
                EXCEPT !.state = "suspended"])

\* the executor's catch block returns a failed result to the handler
GatewayFail(k, wait, error) ==
  LET h == handlers[k] IN
  /\ h.wait = wait
  /\ Resume(k, RunHandler(Settle(Ctx(Advance(h), <<Ev("reply", Current(h).id, error)>>),
                                 Result(config, h.side, Current(h), error, 0))))
  /\ UNCHANGED apiKeyCreated

HandlerInitFail(k) == GatewayFail(k, "init", "initFailed")

OrderFail(k) == GatewayFail(k, "order", "orderFailed")

OrderOk(k) ==
  LET h == handlers[k] IN
  /\ h.wait = "order"
  /\ \E oid \in OrderIds :
       Resume(k, RunHandler(Settle(Ctx(Advance(h), <<Ev("reply", Current(h).id, "ok")>>),
                                   Result(config, h.side, Current(h), "ok", oid))))
  /\ UNCHANGED apiKeyCreated

Gateway ==
  \E k \in 1..Len(handlers) :
    HandlerInitOk(k) \/ HandlerInitFail(k) \/ OrderOk(k) \/ OrderFail(k)

-----------------------------------------------------------------------------

Next ==
  \/ Start
  \/ StartInitOk
  \/ StartInitFail
  \/ MonitorStart
  \/ Stop
  \/ TimerTick
  \/ FetchOk
  \/ FetchFail
  \/ Gateway

Spec == Init /\ [][Next]_vars

-----------------------------------------------------------------------------
(* The executor called directly (getTradeExecutor()), one configuration and  *)
(* one position at a time                                                     *)

ExecConfigs ==
  {Cfg(TRUE, d, mn, mx, mp, mult) :
     d \in BOOLEAN, mn \in {DefaultMinTradeSize, 100}, mx \in {10, ExampleMaxTradeSize},
     mp \in {20, ExampleMaxPositionSize}, mult \in {50, DefaultMultiplier}}

ExecPositions ==
  {P1a, P3, Pos("T3", 30, 50, 9000), Pos("", 100, 50, 5000)}

NoPosition == Pos("", 0, 0, 0)

ExecInit == InitWith(ExecConfigs)

ExecFrame ==
  UNCHANGED <<config, isMonitoring, pollIntervalId, timers, lastStatus, starting,
              polling, polls, initializing, executedPositions, targetPositions,
              stats, handlers, lastFetched>>

\* initialize()
ExecInitialize ==
  /\ IF InitializeCallsGateway(config)
     THEN /\ Len(call) < MaxCalls
          /\ call' = Append(call, [side |-> "INIT", position |-> NoPosition, wait |-> "init",
                                   order |-> NoOrder])
          /\ log' = <<Ev("createOrDeriveApiKey", "", "INIT")>>
     ELSE /\ log' = <<Ev("initialize", "", "dry")>>
          /\ UNCHANGED call
  /\ results' = <<>>
  /\ UNCHANGED apiKeyCreated
  /\ ExecFrame

\* executeBuy(p) / executeSell(p) up to the first suspension
ExecCall(side, p) ==
  LET o == Execute(side, config, apiKeyCreated, p)
      r == Result(config, side, p, o, 0)
  IN /\ IF o \in {"init", "order"}
        THEN /\ Len(call) < MaxCalls
             /\ call' = Append(call, [side |-> side, position |-> p, wait |-> o,
                                      order |-> IF o = "order" THEN Order(config, side, p)
                                                ELSE NoOrder])
             /\ log' = <<Ev(side, p.id, o), GatewayEv(side, p, o)>>
             /\ results' = <<>>
        ELSE /\ log' = <<Ev(side, p.id, o), Ev(ResultCallback(r), p.id, side)>>
             /\ results' = <<r>>
             /\ UNCHANGED call
     /\ UNCHANGED apiKeyCreated
     /\ ExecFrame

ExecuteBuyCall == \E p \in ExecPositions : ExecCall("BUY", p)

ExecuteSellCall == \E p \in ExecPositions : ExecCall("SELL", p)

CallsWithout(k) == SubSeq(call, 1, k - 1) \o SubSeq(call, k + 1, Len(call))

\* the call k returns r
ExecReturn(k, reply, r) ==
  /\ call' = CallsWithout(k)
  /\ log' = <<Ev("reply", r.position.id, reply), Ev(ResultCallback(r), r.position.id, r.side)>>
  /\ results' = <<r>>

ExecInitOk ==
  \E k \in 1..Len(call) :
    /\ call[k].wait = "init"
    /\ apiKeyCreated' = TRUE
    /\ IF call[k].side = "INIT"
       THEN /\ call' = CallsWithout(k)
            /\ log' = <<Ev("reply", "", "initialized")>>
       ELSE /\ call' = [call EXCEPT ![k].wait = "order",
                                    ![k].order = Order(config, call[k].side,
                                                       call[k].position)]
            /\ log' = <<Ev("reply", call[k].position.id, "initialized"),
                        GatewayEv(call[k].side, call[k].position, "order")>>
    /\ results' = <<>>
    /\ ExecFrame

ExecInitFail ==
  \E k \in 1..Len(call) :
    /\ call[k].wait = "init"
    /\ IF call[k].side = "INIT"
       THEN /\ call' = CallsWithout(k)
            /\ log' = <<Ev("reply", "", "initFailed"), Ev("initialize", "", "rejected")>>
            /\ results' = <<>>
       ELSE ExecReturn(k, "initFailed",
                       Result(config, call[k].side, call[k].position, "initFailed", 0))
    /\ UNCHANGED apiKeyCreated
    /\ ExecFrame

ExecOrderOk ==
  \E k \in 1..Len(call), oid \in OrderIds :
    /\ call[k].wait = "order"
    /\ ExecReturn(k, "ok", Result(config, call[k].side, call[k].position, "ok", oid))
    /\ UNCHANGED apiKeyCreated
    /\ ExecFrame

ExecOrderFail ==
  \E k \in 1..Len(call) :
    /\ call[k].wait = "order"
    /\ ExecReturn(k, "orderFailed",
                  Result(config, call[k].side, call[k].position, "orderFailed", 0))
    /\ UNCHANGED apiKeyCreated
    /\ ExecFrame

ExecNext ==
  \/ ExecInitialize
  \/ ExecuteBuyCall
  \/ ExecuteSellCall
  \/ ExecInitOk
  \/ ExecInitFail
  \/ ExecOrderOk
  \/ ExecOrderFail

SpecExec == ExecInit /\ [][ExecNext]_vars

-----------------------------------------------------------------------------
(* The detector alone: a monitor without copy-trading, polling an account   *)
(* whose single position moves around the materiality thresholds            *)

DetectQuantities == {98, 99, 100, 101, 102, 989, 990, 1000, 1010, 1011}

DetectValues == {0, 4949, 4950, 5050, 5051}

DetectLists ==
  {<<>>} \cup {<<Pos("T1", q, 50, 5000)>> : q \in DetectQuantities}
         \cup {<<Pos("T1", 100, 50, v)>> : v \in DetectValues}
         \cup {<<P3>>, <<P1b, P2>>}

DetectInit == InitWith({c \in Configs : c.dryRun})

DetectFetch == \E initial \in BOOLEAN, ps \in DetectLists :
                 FetchDone(initial, TRUE, ps, config.onUpdateThrows)

DetectNext ==
  \/ MonitorStart
  \/ TimerTick
  \/ DetectFetch

SpecDetect == DetectInit /\ [][DetectNext]_vars

-----------------------------------------------------------------------------
(* The enabled monitor, kept running, with every fetch fulfilled, under fair  *)
(* scheduling: a pending fetch completes, a pending gateway call returns      *)

LiveInit == InitWith({c \in Configs : c.enabled})

LiveNext ==
  \/ Start
  \/ StartInitOk
  \/ StartInitFail
  \/ TimerTick
  \/ FetchOk
  \/ Gateway

\* ENABLED <<FetchOk>>_vars: some updateStatus() is suspended on its fetch
FetchPending == starting + polling > 0

\* the third conjunct is WF_vars(FetchOk) with its ENABLED written out
SpecLive ==
  /\ LiveInit
  /\ [][LiveNext]_vars
  /\ ([]<>(~FetchPending) \/ []<><<FetchOk>>_vars)
  /\ WF_vars(StartInitOk \/ StartInitFail)
  /\ WF_vars(Gateway)

-----------------------------------------------------------------------------
(* The program with two mirrored positions: the live monitor after start(),   *)
(* a first fetch of T1 and T2 and two successful BUY orders                   *)

MirroredConfig ==
  Cfg(TRUE, FALSE, DefaultMinTradeSize, ExampleMaxTradeSize, ExampleMaxPositionSize,
      DefaultMultiplier)

MirroredStats ==
  Counted(Counted(InitStats, Result(MirroredConfig, "BUY", P1a, "ok", 1)),
          Result(MirroredConfig, "BUY", P2, "ok", 1))

MirroredInit ==
  /\ config = MirroredConfig
  /\ isMonitoring = TRUE
  /\ pollIntervalId = 1
  /\ timers = {1}
  /\ lastStatus = <<GetStatus(UserPositions(<<P1a, P2>>), TRUE)>>
  /\ starting = 0
  /\ polling = 0
  /\ polls = 0
  /\ apiKeyCreated = TRUE
  /\ initializing = 0
  /\ executedPositions = {"T1", "T2"}
  /\ targetPositions = ToMap(<<>>, <<P1a, P2>>)
  /\ stats = MirroredStats
  /\ handlers = <<>>
  /\ call = <<>>
  /\ log = <<>>
  /\ results = <<>>
  /\ lastFetched = <<>>

SpecMirrored == MirroredInit /\ [][Next]_vars

-----------------------------------------------------------------------------
(* What the last turn of the event loop did *)

FetchRejected == \E i \in 1..Len(log) : log[i].ev = "fetch" /\ log[i].res = "rejected"

OnUpdateThrew == \E i \in 1..Len(log) : log[i].ev = "onUpdate" /\ log[i].res = "throws"

\* the decision engine invoked executeBuy / executeSell for id
Attempted(side, id) == \E i \in 1..Len(log) : log[i].ev = side /\ log[i].id = id

AccountStartCalled == HasEv(log, "start")

GatewayContacted == HasEv(log, "createOrDeriveApiKey") \/ HasEv(log, "createAndPostOrder")

AllIds == {p.id : p \in PositionSet}

-----------------------------------------------------------------------------
(* Claims *)

\* C1: when the position fetch fails during a tick, the retained snapshot
\* lastStatus is left unchanged.
C1_FetchFailureKeepsSnapshot ==
  [][(FetchRejected' /\ lastStatus # <<>>) => lastStatus' = lastStatus]_vars

\* C2: a tick whose fetch fails causes no close (SELL) attempt for any
\* mirrored position.
C2_NoSellOnFetchFailure ==
  FetchRejected => \A id \in AllIds : ~Attempted("SELL", id)

\* C3: a position id that is in the idempotency set when the decision engine
\* sees it as added gets no open (BUY) attempt.
C3_NoSecondBuy ==
  [][\A id \in AllIds : Attempted("BUY", id)' => id \notin executedPositions]_vars

\* C3 witness: a handler found an added position already in the idempotency
\* set (its earlier handler still being in flight) and made no BUY attempt.
C3_Witness ==
  \E id \in executedPositions :
    /\ \E i \in 1..Len(log) : log[i].ev = "added" /\ log[i].id = id
    /\ ~Attempted("BUY", id)

\* C4: after stop() the monitor is Stopped and no timer is armed.
C4_StoppedHasNoTimer ==
  ~isMonitoring => timers = {}

\* C5: start() on a Running AccountMonitor begins no fetch, arms no timer and
\* leaves the monitor Running with its snapshot unchanged.
C5_StartWhileRunningIsNoOp ==
  [][(isMonitoring /\ AccountStartCalled')
       => /\ isMonitoring'
          /\ starting' = starting /\ polling' = polling /\ polls' = polls
          /\ timers' = timers /\ pollIntervalId' = pollIntervalId
          /\ lastStatus' = lastStatus]_vars

\* C5 witness: start() was called on a monitor that was Running with a timer
\* armed and a snapshot retained.
C5_Witness ==
  /\ \E i \in 1..Len(log) : log[i].ev = "start" /\ log[i].res = "warn"
  /\ isMonitoring /\ timers # {} /\ lastStatus # <<>>

\* C6: every error raised inside a tick (a failed fetch, a throwing update
\* path) is reported through the onError callback.
C6_TickErrorReported ==
  (FetchRejected \/ OnUpdateThrew) => HasEv(log, "onError")

\* C7: a new tick does not begin while the previous tick's fetch or the
\* copy-trade handling it triggered is still in flight.
C7_SingleFlight ==
  starting + polling + Len(handlers) <= 1

\* C8: in dry-run mode the order gateway is never contacted: neither
\* createOrDeriveApiKey nor createAndPostOrder is invoked or in flight.
C8_DryRunNoGateway ==
  config.dryRun => /\ ~GatewayContacted
                   /\ initializing = 0 /\ handlers = <<>> /\ call = <<>>
                   /\ ~apiKeyCreated

\* C8 witness: in dry-run mode a mirrored position has been opened and then
\* closed by the executor, after start().
C8_Witness ==
  /\ config.dryRun /\ isMonitoring
  /\ \E i \in 1..Len(results) : results[i].side = "SELL" /\ results[i].success
  /\ stats.totalTradesExecuted >= 2

\* does the position of result r pass the executor's validations?
PassesGuards(r) ==
  LET p == r.position
      tv == p.quantity * config.positionSizeMultiplier * p.price
      pv == p.value * config.positionSizeMultiplier
  IN /\ p.id # ""
     /\ r.side = "BUY" => /\ tv >= config.minTradeSize * Dollar
                          /\ tv <= config.maxTradeSize * Dollar
                          /\ pv <= config.maxPositionSize * Dollar

Successes(rs) == {i \in 1..Len(rs) : rs[i].success}

RECURSIVE VolumeAfter(_, _)
VolumeAfter(v, rs) ==
  IF rs = <<>> THEN v
  ELSE LET p == Head(rs).position
           cents100 == p.quantity * config.positionSizeMultiplier * p.price
       IN VolumeAfter(IF Head(rs).success THEN (v * 100 + cents100 + 50) \div 100 ELSE v,
                      Tail(rs))

\* C9 as stated: every dry-run execution reports success = true and no
\* order identifier.
C9_DryRunAlwaysSucceeds ==
  \A i \in 1..Len(results) :
    results[i].dryRun => (results[i].success /\ results[i].orderId = 0)

\* C9 amended: every dry-run execution that passes the executor's validations
\* (a position id, and for executeBuy the three size guards) reports
\* success = true, dryRun = true and no order identifier, invokes the success
\* callback, and is counted in totalTradesExecuted and totalVolume.
C9_DryRunPassingSucceeds ==
  [][config.dryRun =>
       /\ \A i \in 1..Len(results') :
            PassesGuards(results'[i]) =>
              /\ results'[i].success /\ results'[i].dryRun /\ results'[i].orderId = 0
              /\ \E j \in 1..Len(log') : /\ log'[j].ev = "onTradeExecuted"
                                         /\ log'[j].id = results'[i].position.id
                                         /\ log'[j].res = results'[i].side
       /\ stats'.totalTradesExecuted
            = stats.totalTradesExecuted + Cardinality(Successes(results'))
       /\ stats'.totalVolume = VolumeAfter(stats.totalVolume, results')]_vars

\* C9 witness: a dry-run SELL succeeded after a dry-run BUY, both counted.
C9_Witness ==
  /\ config.dryRun
  /\ \E i \in 1..Len(results) :
       /\ results[i].side = "SELL" /\ results[i].success /\ results[i].dryRun
       /\ results[i].orderId = 0
  /\ stats.totalTradesExecuted >= 2 /\ stats.totalVolume > 0

\* C10: the guards are evaluated in the order minimum trade size, maximum
\* trade size, maximum position size, and the first violated guard alone
\* determines the rejection, with no order attempt and no order identifier.
C10_GuardOrder ==
  \A i \in 1..Len(results) :
    LET r == results[i]
        p == r.position
        tv == p.quantity * config.positionSizeMultiplier * p.price
        pv == p.value * config.positionSizeMultiplier
        belowMin == tv < config.minTradeSize * Dollar
        aboveMax == tv > config.maxTradeSize * Dollar
        tooLarge == pv > config.maxPositionSize * Dollar
        rejected == ~r.success /\ r.orderId = 0 /\ ~GatewayContacted
    IN (r.side = "BUY" /\ p.id # "") =>
         /\ belowMin => (r.error = "min" /\ rejected)
         /\ (~belowMin /\ aboveMax) => (r.error = "max" /\ rejected)
         /\ (~belowMin /\ ~aboveMax /\ tooLarge) => (r.error = "pos" /\ rejected)
         /\ (~belowMin /\ ~aboveMax /\ ~tooLarge) => r.error \notin {"min", "max", "pos"}

\* C10 witness: a position violating both the minimum and the maximum
\* trade-size guard was rejected with the minimum-size error.
C10_Witness ==
  \E i \in 1..Len(results) :
    LET r == results[i]
        tv == r.position.quantity * config.positionSizeMultiplier * r.position.price
    IN /\ r.side = "BUY" /\ r.error = "min" /\ r.orderId = 0
       /\ tv < config.minTradeSize * Dollar
       /\ tv > config.maxTradeSize * Dollar

\* a result that reports a violated size guard
GuardRejected(r) == r.error \in {"min", "max", "pos"}

Failures(rs) == {i \in 1..Len(rs) : ~rs[i].success}

\* the events ev of the last turn that concern position id
EventsOf(lg, ev, id) == {j \in 1..Len(lg) : lg[j].ev = ev /\ lg[j].id = id}

GatewayCalledFor(lg, id) ==
  EventsOf(lg, "createOrDeriveApiKey", id) \cup EventsOf(lg, "createAndPostOrder", id) # {}

\* C11: a guard violation yields a result with success = false and an error,
\* one onTradeError invocation and no gateway call for that position; the
\* caller counts it in totalTradesFailed and does not add the id to the
\* idempotency set.
C11_GuardViolationIsResult ==
  [][\A i \in 1..Len(results') :
       GuardRejected(results'[i]) =>
         /\ ~results'[i].success /\ results'[i].error # ""
         /\ results'[i].orderId = 0
         /\ Cardinality(EventsOf(log', "onTradeError", results'[i].position.id)) = 1
         /\ EventsOf(log', "onTradeExecuted", results'[i].position.id) = {}
         /\ ~GatewayCalledFor(log', results'[i].position.id)
         /\ results'[i].position.id \notin executedPositions'
         /\ stats'.totalTradesFailed
              = stats.totalTradesFailed + Cardinality(Failures(results'))
         /\ stats'.totalTradesExecuted
              = stats.totalTradesExecuted + Cardinality(Successes(results'))]_vars

\* C11 witness: the handler's BUY of a position below the minimum trade size
\* was rejected and counted as failed.
C11_Witness ==
  /\ \E i \in 1..Len(results) :
       /\ results[i].side = "BUY" /\ results[i].error = "min"
       /\ results[i].position.id \notin executedPositions
       /\ EventsOf(log, "onTradeError", results[i].position.id) # {}
  /\ stats.totalTradesFailed >= 1

\* is the notional of p outside the configured trade-size bounds?
BelowMin(p) == TradeValue(config, p) < config.minTradeSize * Dollar

AboveMax(p) == TradeValue(config, p) > config.maxTradeSize * Dollar

\* C12: a close (SELL) whose notional is below the configured minimum or
\* above the configured maximum trade size is rejected, and no order is
\* attempted for it.
C12_SellSizeGuards ==
  /\ \A i \in 1..Len(results) :
       (results[i].side = "SELL" /\ results[i].position.id # ""
          /\ (BelowMin(results[i].position) \/ AboveMax(results[i].position)))
         => (~results[i].success /\ results[i].error \in {"min", "max"})
  /\ \A k \in 1..Len(call) :
       call[k].side = "SELL"
         => ~(BelowMin(call[k].position) \/ AboveMax(call[k].position))

\* ids of added positions a suspended handler has still to process
PendingBuys(hs) ==
  UNION {IF hs[k].side = "BUY" THEN Ids(Tail(hs[k].newPositions)) ELSE {} :
           k \in 1..Len(hs)}

Distinct(ps) == \A i, j \in 1..Len(ps) : ps[i].id = ps[j].id => i = j

\* C13: a position classified as added whose id is not in the idempotency
\* set gets exactly one BUY attempt from its handler (in the turn that
\* classifies it, or when the handler, suspended on an earlier order,
\* reaches it), and the id enters the set if and only if the attempt
\* returns success.
C13_OneBuyPerAdded ==
  [][\A id \in AllIds :
       /\ Cardinality(EventsOf(log', "BUY", id)) <= 1
       /\ ((EventsOf(log', "added", id) # {} \/ id \in PendingBuys(handlers))
             /\ id \notin executedPositions)
            => (Cardinality(EventsOf(log', "BUY", id)) = 1
                  \/ id \in PendingBuys(handlers'))
       /\ \A k \in 1..Len(handlers') : Distinct(handlers'[k].newPositions)
       /\ \A i \in 1..Len(results') :
            (results'[i].side = "BUY" /\ results'[i].position.id = id)
              => /\ results'[i].success => id \in executedPositions'
                 /\ ~results'[i].success
                      => (id \in executedPositions' <=> id \in executedPositions)]_vars

\* C13 witness: in live mode the order for the first added position
\* succeeded, its id entered the set, and the handler went on to attempt the
\* BUY of the second added position.
C13_Witness ==
  /\ ~config.dryRun
  /\ \E i \in 1..Len(results) :
       /\ results[i].side = "BUY" /\ results[i].success
       /\ results[i].position.id = "T1"
  /\ "T1" \in executedPositions
  /\ Cardinality(EventsOf(log, "BUY", "T2")) = 1
  /\ "T2" \notin executedPositions

\* ids of removed positions a suspended handler has still to process
PendingSells(hs) ==
  UNION {IF hs[k].side = "BUY" THEN Ids(hs[k].closedPositions)
         ELSE Ids(Tail(hs[k].closedPositions)) : k \in 1..Len(hs)}

\* C14: a position classified as removed whose id is in the idempotency set
\* gets exactly one SELL attempt from its handler (in the turn that
\* classifies it, or when the handler, suspended on an earlier order,
\* reaches it), and the id leaves the set if and only if the attempt returns
\* success.
C14_OneSellPerRemoved ==
  [][\A id \in AllIds :
       /\ Cardinality(EventsOf(log', "SELL", id)) <= 1
       /\ ((EventsOf(log', "closed", id) # {} \/ id \in PendingSells(handlers))
             /\ id \in executedPositions)
            => (Cardinality(EventsOf(log', "SELL", id)) = 1
                  \/ id \in PendingSells(handlers'))
       /\ \A k \in 1..Len(handlers') : Distinct(handlers'[k].closedPositions)
       /\ \A i \in 1..Len(results') :
            (results'[i].side = "SELL" /\ results'[i].position.id = id)
              => /\ results'[i].success => id \notin executedPositions'
                 /\ ~results'[i].success
                      => (id \in executedPositions' <=> id \in executedPositions)]_vars

\* C14 witness: in live mode the SELL order for a removed mirrored position
\* succeeded and its id left the set.
C14_Witness ==
  /\ ~config.dryRun
  /\ \E i \in 1..Len(results) :
       /\ results[i].side = "SELL" /\ results[i].success
       /\ results[i].orderId # 0
       /\ results[i].position.id \notin executedPositions
  /\ stats.totalTradesExecuted >= 2

TradeEvents == {"BUY", "SELL", "onTradeExecuted", "onTradeError",
                "createOrDeriveApiKey", "createAndPostOrder"}

\* C15: a removed position whose id is not in the idempotency set is
\* ignored: no executeSell call, no gateway call and no trade callback is made
\* for it, it yields no result, and a turn that only ignores leaves the stats
\* and the idempotency set unchanged.
C15_UnmirroredRemovalIgnored ==
  [][\A id \in AllIds :
       /\ EventsOf(log', "SELL", id) # {} => id \in executedPositions
       /\ (EventsOf(log', "closed", id) # {} /\ id \notin executedPositions)
            => /\ \A e \in TradeEvents : EventsOf(log', e, id) = {}
               /\ \A i \in 1..Len(results') : results'[i].position.id # id
               /\ id \notin executedPositions'
               /\ (\A j \in 1..Len(log') : log'[j].ev \notin TradeEvents)
                    => /\ stats' = stats
                       /\ executedPositions' = executedPositions
                       /\ results' = <<>>]_vars

\* C15 witness: a position that was never mirrored (its BUY was rejected)
\* disappeared from the target account and the handler made no call for it.
C15_Witness ==
  /\ EventsOf(log, "closed", "T2") # {}
  /\ "T2" \notin executedPositions
  /\ \A j \in 1..Len(log) : log[j].ev \notin TradeEvents
  /\ results = <<>>
  /\ stats.totalTradesFailed >= 1
  /\ targetPositions = <<>>

\* the turn delivered a snapshot with the ids of the retained one
ResizeDelivered ==
  /\ lastStatus # <<>>
  /\ lastStatus' # lastStatus
  /\ Ids(lastStatus'[1].openPositions) = Ids(lastStatus[1].openPositions)

\* C16: a tick in which the set of position ids is unchanged and only
\* quantities change causes no BUY or SELL attempt and leaves the
\* idempotency set and the stats unchanged.
C16_ResizeNoIntent ==
  [][ResizeDelivered
       => /\ \A id \in AllIds : ~Attempted("BUY", id)' /\ ~Attempted("SELL", id)'
          /\ executedPositions' = executedPositions
          /\ stats' = stats]_vars

\* a result that reports an error thrown by the gateway or by initialize()
Thrown(r) == r.error \in {"initFailed", "orderFailed"}

\* C17: when order submission or the lazy initialization throws inside
\* executeBuy or executeSell, the handler receives a result with
\* success = false and an error, onTradeError is invoked once, the caller
\* increments totalTradesFailed, and the scheduler (timer, Running state) is
\* untouched.
C17_ExecutorErrorContained ==
  [][\A i \in 1..Len(results') :
       Thrown(results'[i]) =>
         /\ ~results'[i].success /\ results'[i].error # ""
         /\ results'[i].orderId = 0
         /\ Cardinality(EventsOf(log', "onTradeError", results'[i].position.id)) = 1
         /\ EventsOf(log', "onTradeExecuted", results'[i].position.id) = {}
         /\ stats'.totalTradesFailed
              = stats.totalTradesFailed + Cardinality(Failures(results'))
         /\ stats'.totalVolume = VolumeAfter(stats.totalVolume, results')
         /\ isMonitoring' = isMonitoring
         /\ timers' = timers /\ pollIntervalId' = pollIntervalId
         /\ lastStatus' = lastStatus]_vars

\* C17 witness: the lazy initialization inside an execution failed, the
\* failure was counted, and the monitor is still Running with its timer.
C17_Witness ==
  /\ \E i \in 1..Len(results) :
       /\ results[i].error = "initFailed"
       /\ EventsOf(log, "onTradeError", results[i].position.id) # {}
  /\ stats.totalTradesFailed >= 1
  /\ isMonitoring /\ timers # {}

\* C18: createOrDeriveApiKey runs at most once over the lifetime of the
\* executor: once the credentials have been created, no start(), initialize()
\* or execution invokes it again.
C18_InitializeAtMostOnce ==
  [][apiKeyCreated => ~HasEv(log', "createOrDeriveApiKey")]_vars

\* CopyTradingMonitor.start() rejected with the initialization error
StartRejected == \E i \in 1..Len(log) : log[i].ev = "start" /\ log[i].res = "rejected"

\* C19: in live mode a start() whose initialization fails rejects without
\* starting the scheduler (no fetch begins, no timer is armed, the Running
\* flag is not set); in dry-run mode no start() waits for or fails on
\* initialization.
C19_LiveInitFailureStopsStart ==
  [][/\ StartRejected'
          => /\ ~config.dryRun
             /\ isMonitoring' = isMonitoring
             /\ starting' = starting /\ polling' = polling /\ polls' = polls
             /\ timers' = timers /\ pollIntervalId' = pollIntervalId
             /\ ~\E i \in 1..Len(log') : log'[i].ev = "start" /\ log'[i].res = "fetch"
     /\ config.dryRun => (initializing' = 0 /\ ~StartRejected')]_vars

\* C19 witness: in live mode the first start() was rejected and the monitor
\* never started.
C19_Witness ==
  /\ StartRejected
  /\ ~config.dryRun /\ config.enabled
  /\ ~isMonitoring /\ polls = 0 /\ starting = 0 /\ timers = {}
  /\ lastStatus = <<>>

\* executeBuy / executeSell invocations the decision engine made in a turn
Invocations(lg) == {j \in 1..Len(lg) : lg[j].ev \in {"BUY", "SELL"}}

\* the caller's bookkeeping of the results returned in a turn
ResultsCounted ==
  /\ stats'.totalTradesExecuted
       = stats.totalTradesExecuted + Cardinality(Successes(results'))
  /\ stats'.totalTradesFailed
       = stats.totalTradesFailed + Cardinality(Failures(results'))
  /\ stats'.totalVolume = VolumeAfter(stats.totalVolume, results')
  /\ stats'.lastTradeTime = (stats.lastTradeTime \/ Successes(results') # {})

\* C20 as stated: every result changes exactly one counter (and a success
\* the volume and lastTradeTime), and totalTradesExecuted + totalTradesFailed
\* always equals the number of executor invocations, that is, every
\* invocation is counted in the turn in which it is made.
C20_CountersEqualInvocations ==
  [][/\ ResultsCounted
     /\ Cardinality(Invocations(log')) = Len(results')]_vars

\* C20 amended: every returned result changes exactly one counter (and a
\* success the volume and lastTradeTime), in dry-run and live mode alike, and
\* totalTradesExecuted + totalTradesFailed equals the number of executor
\* invocations that have returned: an invocation still awaiting the gateway
\* is counted only when its result arrives.
C20_CountersEqualReturned ==
  [][/\ ResultsCounted
     /\ Cardinality(Invocations(log'))
          = Len(results') + Len(handlers') - Len(handlers)]_vars

\* C20 witness: in live mode one order has returned successfully and is
\* counted while the handler's next invocation is still in flight.
C20_Witness ==
  /\ ~config.dryRun
  /\ \E i \in 1..Len(results) : results[i].success /\ results[i].orderId # 0
  /\ handlers # <<>>
  /\ Invocations(log) # {}
  /\ stats.totalTradesExecuted >= 1 /\ stats.totalVolume > 0
  /\ stats.lastTradeTime

\* C21: the order submitted for a position has the position's id as token,
\* the position's price, size quantity x multiplier and the side of the
\* intent; a successful result echoes that quantity and price and carries an
\* order identifier exactly in live mode.
C21_ProportionalOrder ==
  /\ \A k \in 1..Len(call) :
       call[k].wait = "order" =>
         /\ call[k].order.tokenID = call[k].position.id
         /\ call[k].order.price = call[k].position.price
         /\ call[k].order.size
              = call[k].position.quantity * config.positionSizeMultiplier
         /\ call[k].order.side = call[k].side
         /\ call[k].side \in {"BUY", "SELL"}
  /\ \A i \in 1..Len(results) :
       results[i].success =>
         /\ results[i].executedQuantity
              = results[i].position.quantity * config.positionSizeMultiplier
         /\ results[i].executedPrice = results[i].position.price
         /\ (results[i].orderId # 0) <=> ~config.dryRun
         /\ results[i].orderId # 0 => results[i].orderId \in OrderIds

\* C21 witness: in live mode, with a multiplier of 0.5, an order of half the
\* position's quantity has been answered by the gateway.
C21_Witness ==
  /\ ~config.dryRun
  /\ config.positionSizeMultiplier # DefaultMultiplier
  /\ \E i \in 1..Len(results) :
       /\ results[i].success /\ results[i].orderId # 0
       /\ results[i].side = "SELL"
       /\ 2 * results[i].executedQuantity = results[i].position.quantity * DefaultMultiplier
       /\ results[i].executedPrice = results[i].position.price

\* the turn completed a fetch
FetchCompleted == HasEv(log, "fetch")

\* the copy-trade handler runs on a delivered snapshot
HandlerRuns == config.enabled /\ ~config.onUpdateThrows

MaterialQuantity(q, c) == 100 * Abs(c - q) > 100 /\ 100 * Abs(c - q) > q

\* |cv - lv| / max(lv, 0.01) > 0.01, values in cents
MaterialDrift(lv, cv) == 100 * Abs(cv - lv) > lv /\ 100 * Abs(cv - lv) > 1

\* the positions of the retained snapshot and of the one just fetched
Retained == lastStatus[1].openPositions

Fetched == lastFetched[1].openPositions

OnlyDriftPossible ==
  /\ lastStatus # <<>> /\ lastFetched' # <<>>
  /\ Len(Fetched') = Len(Retained)
  /\ Ids(Fetched') = Ids(Retained)
  /\ \A i \in 1..Len(Fetched'), j \in 1..Len(Retained) :
       Fetched'[i].id = Retained[j].id
         => ~MaterialQuantity(Retained[j].quantity, Fetched'[i].quantity)

\* C24: with identical id sets and no material quantity change the detector
\* reports a change, and the snapshot is delivered, if and only if
\* |currentTotal - previousTotal| / max(previousTotal, 0.01) > 0.01.
C24_AggregateDrift ==
  [][OnlyDriftPossible
       => /\ DetectChanges(lastStatus, lastFetched'[1])
               <=> MaterialDrift(lastStatus[1].totalValue, lastFetched'[1].totalValue)
          /\ HasEv(log', "onUpdate")
               <=> MaterialDrift(lastStatus[1].totalValue, lastFetched'[1].totalValue)
          /\ ValueChanged(lastFetched'[1].totalValue, lastStatus[1].totalValue)
               <=> MaterialDrift(lastStatus[1].totalValue, lastFetched'[1].totalValue)]_vars

\* C24 witness: with the quantity unchanged, a total that moved from 50.00
\* to 50.51 was delivered.
C24_Witness ==
  /\ lastStatus # <<>> /\ lastFetched # <<>>
  /\ lastStatus = lastFetched
  /\ Len(Fetched) = 1
  /\ Fetched[1].quantity = 100 /\ lastFetched[1].totalValue = 5051
  /\ polls = 2 /\ HasEv(log, "onUpdate")

\* the handler of this turn classified the position as added
ClassifiedAdded(lg, id) == \E i \in 1..Len(lg) : lg[i].ev = "added" /\ lg[i].id = id

\* C25: an exception thrown by an observer callback does not abort the tick:
\* the snapshot is replaced and, with copy trading enabled, the fetched
\* positions absent from the mirrored set are still taken up by the
\* copy-trade handler.
C25_CallbackThrowContained ==
  [][(config.enabled /\ OnUpdateThrew')
       => /\ lastStatus' = lastFetched'
          /\ \A i \in 1..Len(Fetched') :
               Fetched'[i].id \notin Ids(targetPositions)
                 => ClassifiedAdded(log', Fetched'[i].id)]_vars

\* C26: a tick whose fetch failed invokes onError at least once and leaves
\* every armed timer armed.
C26_FetchFailureSurfaced ==
  [][FetchRejected' => (HasEv(log', "onError") /\ timers \subseteq timers')]_vars

\* C27: start() arms the timer only after its immediate cycle, the trade
\* executions of that cycle included, has completed: the turn that calls
\* setInterval leaves no handler of that cycle in flight.
C27_TimerArmedAfterCycle ==
  [][HasEv(log', "setInterval") => Len(handlers') <= Len(handlers)]_vars

\* the turn is a call of stop() or a step of start()
StopOrStart(lg) ==
  \E i \in 1..Len(lg) :
    \/ lg[i].ev \in {"stop", "start"}
    \/ lg[i].ev = "createOrDeriveApiKey" /\ lg[i].res = "start"

\* C28: stop() and a later start() leave the trade statistics, the
\* idempotency set and the retained snapshot as they were, and the three
\* counters totalTradesExecuted, totalTradesFailed and totalVolume never
\* decrease.
C28_StatePersists ==
  [][/\ StopOrStart(log') => UNCHANGED <<stats, executedPositions, lastStatus>>
     /\ stats'.totalTradesExecuted >= stats.totalTradesExecuted
     /\ stats'.totalTradesFailed >= stats.totalTradesFailed
     /\ stats'.totalVolume >= stats.totalVolume]_vars

\* C28 witness: a monitor that traded, was stopped and is started again
\* still holds its statistics, idempotency set and snapshot.
C28_Witness ==
  /\ \E i \in 1..Len(log) : log[i].ev = "start" /\ log[i].res = "fetch"
  /\ isMonitoring /\ starting = 1
  /\ lastStatus # <<>>
  /\ executedPositions # {}
  /\ stats.totalTradesExecuted > 0 /\ stats.totalVolume > 0

ExecutorEvents == {"BUY", "SELL", "createOrDeriveApiKey", "createAndPostOrder"}

\* C29: with enabled = false no executor operation is invoked (no
\* initialization, no BUY, no SELL), the statistics stay zero and the
\* idempotency set stays empty, while every snapshot the monitor reports as
\* changed is still delivered to onUpdate.
C29_DisabledOnlyObserves ==
  [][~config.enabled
       => /\ \A i \in 1..Len(log') : log'[i].ev \notin ExecutorEvents
          /\ initializing' = 0 /\ ~apiKeyCreated' /\ call' = <<>>
          /\ handlers' = <<>> /\ results' = <<>>
          /\ stats' = InitStats /\ executedPositions' = {}
          /\ (FetchCompleted' /\ (lastStatus = <<>>
                                    \/ DetectChanges(lastStatus, lastFetched'[1])))
               => HasEv(log', "onUpdate")]_vars

\* C29 witness: a disabled monitor delivered a second snapshot whose
\* position set differs from the first one's.
C29_Witness ==
  /\ ~config.enabled /\ ~config.onUpdateThrows
  /\ polls = 2 /\ lastFetched # <<>>
  /\ lastStatus = lastFetched
  /\ Len(Fetched) = 2
  /\ HasEv(log, "onUpdate") /\ ~HasEv(log, "setInterval")
  /\ stats = InitStats /\ executedPositions = {}

\* the set after the results rs, in the order they were returned: a
\* successful BUY adds its id, a successful SELL removes it
RECURSIVE LastSuccessBuy(_, _)
LastSuccessBuy(ex, rs) ==
  IF rs = <<>> THEN ex
  ELSE LET r == Head(rs)
       IN LastSuccessBuy(IF ~r.success THEN ex
                         ELSE IF r.side = "BUY" THEN ex \cup {r.position.id}
                         ELSE ex \ {r.position.id},
                         Tail(rs))

\* C30: the idempotency set, empty at construction, holds exactly the ids
\* whose most recent successful execution was a BUY: in every turn an id
\* enters it only with a successful BUY, leaves it only with a successful
\* SELL, and failed or rejected executions leave it unchanged.
C30_SetTracksLastSuccess ==
  [][/\ executedPositions' = LastSuccessBuy(executedPositions, results')
     /\ (\A i \in 1..Len(results') : ~results'[i].success)
          => executedPositions' = executedPositions]_vars

\* C30 witness: a turn returned a successful SELL for an id that was in the
\* set and a failed BUY for an id that stays outside it.
C30_Witness ==
  /\ \E i \in 1..Len(results) :
       /\ results[i].success /\ results[i].side = "SELL"
       /\ results[i].position.id \notin executedPositions
  /\ \E i \in 1..Len(results) :
       /\ ~results[i].success /\ results[i].side = "BUY"
       /\ results[i].position.id \notin executedPositions

\* the ids listed under the name as in the turn's record
ListedIds(lg, as) == {lg[i].id : i \in {j \in 1..Len(lg) : lg[j].ev = as}}

\* the positions of the retained snapshot, none when nothing is retained
OldPositions == IF lastStatus = <<>> THEN <<>> ELSE lastStatus[1].openPositions

\* the ids common to both snapshots whose quantity changed materially
MaterialIds(old, cur) ==
  {cur[i].id : i \in {k \in 1..Len(cur) :
                        \E j \in 1..Len(old) :
                          /\ old[j].id = cur[k].id
                          /\ MaterialQuantity(old[j].quantity, cur[k].quantity)}}

\* the disjunction of the six conditions, for the snapshot st
Verdict(st) ==
  \/ lastStatus = <<>>
  \/ Len(st.openPositions) # Len(OldPositions)
  \/ Ids(st.openPositions) \ Ids(OldPositions) # {}
  \/ MaterialIds(OldPositions, st.openPositions) # {}
  \/ Ids(OldPositions) \ Ids(st.openPositions) # {}
  \/ lastStatus # <<>> /\ MaterialDrift(lastStatus[1].totalValue, st.totalValue)

\* the three lists hold every added, materially updated and removed id
ListsInFull(lg, st) ==
  /\ ListedIds(lg, "newPositions") = Ids(st.openPositions) \ Ids(OldPositions)
  /\ ListedIds(lg, "updatedPositions") = MaterialIds(OldPositions, st.openPositions)
  /\ ListedIds(lg, "removedPositions") = Ids(OldPositions) \ Ids(st.openPositions)

FetchFulfilled(lg) == \E i \in 1..Len(lg) : lg[i].ev = "fetch" /\ lg[i].res = "fulfilled"

\* C32: the retained snapshot is replaced by each freshly fetched snapshot,
\* so that the next tick compares against the snapshot of the immediately
\* preceding successful tick.
C32_BaselineIsPreviousTick ==
  [][FetchFulfilled(log') => lastStatus' = lastFetched']_vars

\* the ids of the BUY attempts of a turn, in the order they were made
BuyIds(lg) ==
  LET buys == SelectSeq(lg, LAMBDA e : e.ev = "BUY")
  IN [i \in 1..Len(buys) |-> buys[i].id]

\* ids is a subsequence of the ids of ps, in the order of ps
RECURSIVE InOrder(_, _)
InOrder(ids, ps) ==
  IF ids = <<>> THEN TRUE
  ELSE IF ps = <<>> THEN FALSE
  ELSE IF Head(ids) = Head(ps).id THEN InOrder(Tail(ids), Tail(ps))
  ELSE InOrder(ids, Tail(ps))

PositionIds(ps) == [i \in 1..Len(ps) |-> ps[i].id]

\* C33: within the handling of one tick opens are processed before closes:
\* no BUY attempt follows a SELL attempt, a handler that awaits a SELL has no
\* BUY left, and the BUY attempts follow the order of the snapshot, one at a
\* time.
C33_OpensBeforeCloses ==
  [][/\ \A i, j \in 1..Len(log') :
          (i < j /\ log'[i].ev = "SELL") => log'[j].ev # "BUY"
     /\ \A k \in 1..Len(handlers') :
          /\ handlers'[k].side = "SELL" => handlers'[k].newPositions = <<>>
          /\ InOrder(PositionIds(handlers'[k].newPositions),
                     handlers'[k].currentPositions)
     /\ IF lastFetched' # <<>>
        THEN InOrder(BuyIds(log'), Fetched')
        ELSE BuyIds(log') = <<>>
               \/ \E k \in 1..Len(handlers) :
                     InOrder(BuyIds(log'), handlers[k].newPositions)]_vars

\* C33 witness: one turn made a BUY attempt, delivered its result and then
\* made a SELL attempt.
C33_Witness ==
  \E i, j, k \in 1..Len(log) :
    /\ i < j /\ j < k
    /\ log[i].ev = "BUY"
    /\ log[j].ev \in {"onTradeExecuted", "onTradeError"} /\ log[j].id = log[i].id
    /\ log[k].ev = "SELL"

\* the handler has submitted an order for side and id and awaits its reply
OrderInFlight(h, side, id) ==
  h.side = side /\ h.wait = "order" /\ Current(h).id = id

\* C34: under overlapping copy-trade handlers no two orders of the same
\* side are in flight for one position id.
C34_NoDuplicateOrder ==
  \A k1, k2 \in 1..Len(handlers), side \in {"BUY", "SELL"}, id \in AllIds :
    (OrderInFlight(handlers[k1], side, id) /\ OrderInFlight(handlers[k2], side, id))
      => k1 = k2

\* C35: at most one repeating timer is armed, and a timer is armed only
\* while the monitor is running.
C35_OneTimerWhileRunning ==
  /\ Cardinality(timers) <= 1
  /\ timers # {} => (isMonitoring /\ timers = {pollIntervalId})

\* C36: a BUY that failed or was rejected by a guard is not attempted again
\* while the position stays open: the turn after the failure makes no BUY
\* attempt for an id whose BUY has just failed and that the fetched snapshot
\* still holds.
C36_FailedBuyNotRetried ==
  [][\A i \in 1..Len(results) :
        (/\ results[i].side = "BUY" /\ ~results[i].success
         /\ lastFetched' # <<>>
         /\ results[i].position.id \in Ids(OldPositions)
         /\ results[i].position.id \in Ids(lastFetched'[1].openPositions))
          => \A j \in 1..Len(log') :
               ~(log'[j].ev = "BUY" /\ log'[j].id = results[i].position.id)]_vars

\* C37: after a failed SELL of a removed mirrored position the id stays in
\* the idempotency set, the next turn makes no further SELL attempt for it
\* while the position stays absent, and no BUY attempt when a snapshot holds
\* the id again.
C37_FailedSellNotRetried ==
  [][/\ \A i \in 1..Len(results') :
          (results'[i].side = "SELL" /\ ~results'[i].success)
            => results'[i].position.id \in executedPositions'
     /\ \A i \in 1..Len(results) :
          (/\ results[i].side = "SELL" /\ ~results[i].success
           /\ lastFetched' # <<>>
           /\ results[i].position.id \notin Ids(OldPositions))
            => \A j \in 1..Len(log') :
                 log'[j].id = results[i].position.id
                   => log'[j].ev \notin {"BUY", "SELL"}]_vars

\* C38: the SELL of a position that left the snapshot is sized from the
\* quantity the position had in the last snapshot delivered before it
\* disappeared.
C38_SellSizedFromLastDelivered ==
  [][(lastFetched' # <<>> /\ lastStatus # <<>>)
       => /\ \A i \in 1..Len(results') :
               (/\ results'[i].side = "SELL"
                /\ results'[i].position.id \in Ids(OldPositions))
                 => results'[i].position.quantity
                      = Find(OldPositions, results'[i].position.id).quantity
          /\ (/\ Len(handlers') > Len(handlers)
              /\ handlers'[Len(handlers')].side = "SELL"
              /\ Current(handlers'[Len(handlers')]).id \in Ids(OldPositions))
               => Current(handlers'[Len(handlers')]).quantity
                    = Find(OldPositions, Current(handlers'[Len(handlers')]).id).quantity]_vars

\* the id appeared in the fetched snapshot, absent from the one delivered
\* before, and is not in the idempotency set
Appeared(id) ==
  /\ config.enabled /\ isMonitoring
  /\ id \in ListedIds(log, "newPositions")
  /\ id \notin executedPositions

OnUpdateCalls(lg) == Cardinality({i \in 1..Len(lg) : lg[i].ev = "onUpdate"})

\* the step started exactly one copy-trade handler, on the fetched snapshot
HandlerStarted ==
  \/ /\ handlers' = handlers
     /\ targetPositions' = ToMap(<<>>, lastFetched'[1].openPositions)
  \/ /\ Len(handlers') = Len(handlers) + 1
     /\ SubSeq(handlers', 1, Len(handlers)) = handlers
     /\ handlers'[Len(handlers')].currentPositions
          = ToMap(<<>>, lastFetched'[1].openPositions)

\* the step started no copy-trade handler
NoHandlerStarted ==
  /\ UNCHANGED <<handlers, targetPositions, executedPositions, stats>>
  /\ results' = <<>>

\* C40: a tick invokes onUpdate, and with it the copy-trade handling,
\* exactly once if the detector reports a change or no snapshot is retained
\* and not at all otherwise; the retained snapshot is replaced before
\* onUpdate is invoked, so also when onUpdate throws, and a tick with no
\* material change leaves it unchanged.
C40_OnUpdateExactlyOnce ==
  [][IF FetchCompleted'
     THEN IF lastStatus = <<>> \/ DetectChanges(lastStatus, lastFetched'[1])
          THEN /\ OnUpdateCalls(log') = 1
               /\ lastStatus' = lastFetched'
               /\ IF HandlerRuns THEN HandlerStarted ELSE NoHandlerStarted
          ELSE /\ OnUpdateCalls(log') = 0
               /\ lastStatus' = lastStatus
               /\ NoHandlerStarted
     ELSE OnUpdateCalls(log') = 0 /\ lastStatus' = lastStatus]_vars

\* C40 witness: with copy trading enabled, a tick fetched a snapshot that
\* differs from the retained one below the thresholds and invoked nothing.
C40_Witness ==
  /\ HandlerRuns
  /\ FetchFulfilled(log) /\ polls = 2
  /\ lastFetched # lastStatus /\ Len(Fetched) = 1
  /\ targetPositions = lastStatus[1].openPositions
  /\ OnUpdateCalls(log) = 0

====
